---------------------------- MODULE Spec2Model ----------------------------
(***************************************************************************)
(* A model of compliance_pkg/compliance_data_model.py: the action-kind     *)
(* registry, the ComplianceBase classifier and the five action views       *)
(* (TweetAction, UserAction, DropAction, ScrubGeoAction, DeleteLikeAction).*)
(*                                                                         *)
(* The program is a library; the state machine is its caller: one          *)
(* compliance dictionary sits in memory (dicts), the caller constructs     *)
(* instances from it (objs) and calls their accessors, and the outcome of  *)
(* the latest call (a returned value or a raised exception) is in last.    *)
(***************************************************************************)
EXTENDS Integers, Sequences, FiniteSets, TLC

VARIABLES
    dicts,  \* the dictionaries the caller holds, by reference (index)
    objs,   \* the instances constructed so far: [class, attrs, via]
    last    \* the latest call and its outcome

vars == <<dicts, objs, last>>

\* An instance is read-only once constructed, so two instances of the same
\* class with the same attributes, made from the same kind of argument (via),
\* answer every call alike: objs keeps them once.
\* The number of different instances the caller keeps alive at once.
MaxObjs == 3

-----------------------------------------------------------------------------
(* Python values.  Every value is tagged, so that values of different      *)
(* Python types are never confused: None, str (its characters), int, list, *)
(* dict (its keys in insertion order, and the mapping), tuple.             *)

None == [kind |-> "None"]
PyStr(chars) == [kind |-> "str", s |-> chars]
PyInt(n) == [kind |-> "int", n |-> n]
PyList(l) == [kind |-> "list", l |-> l]
PyTuple(t) == [kind |-> "tuple", t |-> t]
PySet(e) == [kind |-> "set", e |-> e]

\* A dict literal {k1: v1, k2: v2, ...}, given as a sequence of <<key, value>>.
PyDict(pairs) ==
    [kind |-> "dict",
     keys |-> [i \in 1..Len(pairs) |-> pairs[i][1]],
     m    |-> [k \in {pairs[i][1] : i \in 1..Len(pairs)} |->
                 pairs[CHOOSE i \in 1..Len(pairs) : pairs[i][1] = k][2]]]

\* What a raised exception and a returned value look like to the caller.
\* `at` names the place that raised, in the words of the error taxonomy.
Raise(exc, at) == [ok |-> FALSE, exc |-> exc, at |-> at]
Return(v) == [ok |-> TRUE, val |-> v]

-----------------------------------------------------------------------------
(* The action-kind registry.                                               *)

USER_ACTIONS ==
    {"user_delete", "user_protect", "user_suspend", "user_undelete",
     "user_unprotect", "user_unsuspend", "user_withheld"}
TWEET_ACTIONS == {"delete", "tweet_edit", "status_withheld"}
DROP_ACTIONS == {"drop", "undrop"}
GEO_ACTIONS == {"scrub_geo"}
LIKE_ACTIONS_Renamed == {"favorite_delete"}
LIKE_ACTIONS == {"delete"}

ActionClasses == {"user", "tweet", "drop", "scrub_geo", "like"}

return_possible_actions(action_class) ==
    IF action_class \notin ActionClasses
    THEN Raise("TypeError", "InvalidClassName")
    ELSE Return(PySet(
        CASE action_class = "user" -> USER_ACTIONS
          [] action_class = "tweet" -> TWEET_ACTIONS
          [] action_class = "drop" -> DROP_ACTIONS
          [] action_class = "scrub_geo" -> GEO_ACTIONS
          [] action_class = "like" -> LIKE_ACTIONS))

-----------------------------------------------------------------------------
(* The dictionaries a caller may hold.  The shapes are those the accessors *)
(* read (one top-level action key, a sub-dictionary of fields), with the   *)
(* fields present, absent, or of another type.                             *)

Chars_999 == <<"9", "9", "9">>
Chars_111 == <<"1", "1", "1">>
Chars_555 == <<"5", "5", "5">>
Chars_42 == <<"4", "2">>
Chars_7 == <<"7">>
Chars_US == <<"U", "S">>
Chars_abc == <<"a", "b", "c">>
Chars_epoch_ms ==
    <<"1", "6", "1", "0", "0", "0", "0", "0", "0", "0", "1", "2", "3">>
Chars_iso ==
    <<"2", "0", "2", "1", "-", "0", "1", "-", "0", "7", "T",
      "1", "2", ":", "0", "0", ":", "0", "0", ".", "1", "2", "3">>
Chars_iso_offset == Chars_iso \o <<"+", "0", "0", ":", "0", "0">>

TimestampMs == PyStr(Chars_epoch_ms)
Countries == PyList(<<PyStr(Chars_US)>>)
Status == PyDict(<<<<"id_str", PyStr(Chars_42)>>, <<"user_id_str", PyStr(Chars_7)>>>>)
Favorite ==
    PyDict(<<<<"tweet_id_str", PyStr(Chars_42)>>, <<"user_id_str", PyStr(Chars_7)>>>>)

\* Sub-dictionaries of the user actions other than user_withheld.
UserBodies ==
    { PyDict(<<<<"id", PyInt(7)>>, <<"timestamp_ms", TimestampMs>>>>),
      PyDict(<<<<"id", PyStr(Chars_7)>>, <<"timestamp_ms", TimestampMs>>>>),
      PyDict(<<<<"timestamp_ms", TimestampMs>>>>),
      PyDict(<<<<"id", PyInt(7)>>>>),
      PyDict(<<<<"id", PyInt(7)>>, <<"timestamp_ms", PyStr(Chars_abc)>>>>),
      PyDict(<<>>) }

UserWithheldBodies ==
    { PyDict(<<<<"user", PyDict(<<<<"id_str", PyStr(Chars_7)>>>>)>>,
               <<"withheld_in_countries", Countries>>,
               <<"timestampMs", PyStr(Chars_iso)>>>>),
      PyDict(<<<<"user", PyDict(<<<<"id_str", PyStr(Chars_7)>>>>)>>,
               <<"withheld_in_countries", Countries>>,
               <<"timestampMs", PyStr(Chars_iso_offset)>>>>),
      PyDict(<<<<"user", PyDict(<<>>)>>,
               <<"timestampMs", PyStr(Chars_iso)>>>>),
      PyDict(<<<<"withheld_in_countries", Countries>>,
               <<"timestampMs", PyStr(Chars_epoch_ms)>>>>),
      PyDict(<<<<"user", PyDict(<<<<"id_str", PyStr(Chars_7)>>>>)>>,
               <<"timestamp_ms", TimestampMs>>>>),
      PyDict(<<>>) }

\* Sub-dictionaries with a status object: delete, status_withheld, drop, undrop.
StatusBodies ==
    { PyDict(<<<<"status", Status>>, <<"timestamp_ms", TimestampMs>>>>),
      PyDict(<<<<"status", Status>>, <<"withheld_in_countries", Countries>>,
               <<"timestamp_ms", TimestampMs>>>>),
      PyDict(<<<<"status", PyDict(<<<<"user_id_str", PyStr(Chars_7)>>>>)>>,
               <<"timestamp_ms", TimestampMs>>>>),
      PyDict(<<<<"status", PyStr(Chars_42)>>, <<"timestamp_ms", PyInt(1500)>>>>),
      PyDict(<<<<"timestamp_ms", TimestampMs>>>>),
      PyDict(<<<<"status", Status>>>>),
      PyDict(<<>>) }

\* The sub-dictionary of a like deletion.
LikeBodies ==
    { PyDict(<<<<"favorite", Favorite>>, <<"timestamp_ms", TimestampMs>>>>) }

EditIds == PyList(<<PyStr(Chars_111), PyStr(Chars_555), PyStr(Chars_999)>>)

TweetEditBodies ==
    { PyDict(<<<<"id", PyStr(Chars_999)>>, <<"initial_tweet_id", PyStr(Chars_111)>>,
               <<"edit_tweet_ids", EditIds>>, <<"timestamp_ms", TimestampMs>>>>),
      PyDict(<<<<"id", PyStr(Chars_999)>>, <<"initial_tweet_id", PyStr(Chars_111)>>,
               <<"edit_tweet_ids", EditIds>>>>),
      PyDict(<<<<"initial_tweet_id", PyStr(Chars_111)>>,
               <<"timestamp_ms", TimestampMs>>>>),
      PyDict(<<>>) }

GeoBodies ==
    { PyDict(<<<<"user_id_str", PyStr(Chars_7)>>,
               <<"up_to_status_id_str", PyStr(Chars_42)>>,
               <<"timestamp_ms", TimestampMs>>>>),
      PyDict(<<<<"up_to_status_id_str", PyStr(Chars_42)>>>>),
      PyDict(<<>>) }

\* An action name of no class set.
UnknownAction == "status_undelete"

BodiesOf(action) ==
    CASE action = "user_withheld" -> UserWithheldBodies
      [] action \in USER_ACTIONS \ {"user_withheld"} -> UserBodies
      [] action = "delete" -> StatusBodies \cup LikeBodies
      [] action \in {"status_withheld", "drop", "undrop"} -> StatusBodies
      [] action = "tweet_edit" -> TweetEditBodies
      [] action = "scrub_geo" -> GeoBodies
      [] OTHER -> {PyDict(<<<<"timestamp_ms", TimestampMs>>>>)}

ActionNames ==
    USER_ACTIONS \cup TWEET_ACTIONS \cup DROP_ACTIONS \cup GEO_ACTIONS
        \cup LIKE_ACTIONS \cup {UnknownAction}

\* One top-level key: the records of the input contract.
SingleKeyRecords ==
    { PyDict(<<<<p[1], p[2]>>>>) :
        p \in UNION {{<<a, b>> : b \in BodiesOf(a)} : a \in ActionNames} }

\* Dictionaries outside the input contract: no key, and two keys.
OtherRecords ==
    { PyDict(<<>>),
      PyDict(<<<<"drop", PyDict(<<<<"status", Status>>>>)>>,
               <<"user_delete", PyDict(<<<<"id", PyInt(7)>>>>)>>>>) }

Records == SingleKeyRecords \cup OtherRecords

-----------------------------------------------------------------------------
(* utils.get_dict_val: the descent through a dictionary along key_list.    *)
(* It returns None the moment a key is absent or the value reached is not  *)
(* a dictionary, and the value reached otherwise.                          *)

RECURSIVE get_dict_val(_, _)
get_dict_val(dictionary, key_list) ==
    IF key_list = <<>> THEN dictionary
    ELSE IF dictionary.kind # "dict" THEN None
    ELSE IF Head(key_list) \notin DOMAIN dictionary.m THEN None
    ELSE get_dict_val(dictionary.m[Head(key_list)], Tail(key_list))

-----------------------------------------------------------------------------
(* Arguments of a constructor: None, a dictionary (by reference), an       *)
(* instance (by reference), or a value of another type (a list).           *)

ArgNone == [kind |-> "None"]
ArgOther == [kind |-> "list"]
ArgDict(d) == [kind |-> "dict", ref |-> d]
ArgObj(o) == [kind |-> "instance", obj |-> o]

Args ==
    {ArgNone, ArgOther} \cup {ArgDict(d) : d \in DOMAIN dicts}
        \cup {ArgObj(o) : o \in objs}

\* sum() of a list of booleans: True counts 1.
RECURSIVE sum(_)
sum(flags) ==
    IF flags = <<>> THEN 0
    ELSE (IF Head(flags) THEN 1 ELSE 0) + sum(Tail(flags))

\* The check on the five class flags, lines 85-96.
ClassFlagCheck_AtLeastOne(all_action_flags) == sum(all_action_flags) >= 1
ClassFlagCheck(all_action_flags) == sum(all_action_flags) = 1

\* Lines 77-82: the action name and the five class flags.
ClassFlags(comp_object, action) ==
    [comp_object     |-> comp_object,
     action          |-> action,
     is_user_action  |-> action \in USER_ACTIONS,
     is_tweet_action |-> action \in TWEET_ACTIONS,
     is_drop_action  |-> action \in DROP_ACTIONS,
     is_geo_action   |-> action \in GEO_ACTIONS,
     is_like_action  |-> action \in LIKE_ACTIONS]

\* Lines 85-96: raise unless exactly one class flag is set.
CheckClassFlags(attrs) ==
    IF ~ClassFlagCheck(<<attrs.is_user_action, attrs.is_tweet_action,
                         attrs.is_drop_action, attrs.is_geo_action,
                         attrs.is_like_action>>)
    THEN Raise("TypeError", "UnrecognizedAction")
    ELSE [ok |-> TRUE, attrs |-> attrs]

\* ComplianceBase.__init__: the attributes it sets, or the exception raised.
ComplianceBase_init(comp_object) ==
    IF comp_object.kind = "None"
    THEN Raise("ValueError", "MissingRecord")
    ELSE IF comp_object.kind # "dict"
    THEN Raise("AttributeError", "comp_object.keys")
    ELSE IF dicts[comp_object.ref].keys = <<>>
    THEN Raise("IndexError", "list(comp_object.keys())[0]")
    ELSE CheckClassFlags(ClassFlags(comp_object.ref, dicts[comp_object.ref].keys[1]))

-----------------------------------------------------------------------------
(* The five views.  Each constructor runs ComplianceBase.__init__ on the   *)
(* dictionary it is given, or on the dictionary of the instance it is      *)
(* given; for any other argument it builds a TypeError without raising it  *)
(* and goes on with no attribute set.                                      *)

\* What the isinstance branches hand to super().__init__.
\* A variant that hands an instance on as it is, without taking its dictionary.
ViewSuperArg_Unwrapped(arg) == arg
ViewSuperArg(arg) ==
    IF arg.kind = "instance" THEN ArgDict(arg.obj.attrs.comp_object) ELSE arg

ViewSuperInit(arg) ==
    IF arg.kind \in {"instance", "dict"}
    THEN ComplianceBase_init(ViewSuperArg(arg))
    ELSE [ok |-> TRUE, attrs |-> <<>>]

\* `if not self.<flag>: raise TypeError(...)`; without the flag attribute
\* the read itself raises.
ClassGate(base, flag) ==
    IF ~base.ok THEN base
    ELSE IF flag \notin DOMAIN base.attrs
    THEN Raise("AttributeError", "self." \o flag)
    ELSE IF ~base.attrs[flag]
    THEN Raise("TypeError", "WrongActionClass")
    ELSE base

\* The sub-action flags join the attributes unless their check raises.
SubActionGate(gated, sub, all_action_flags) ==
    IF ~gated.ok THEN gated
    ELSE IF sum(all_action_flags) # 1
    THEN Raise("TypeError", "UnrecognizedSubAction")
    ELSE [ok |-> TRUE, attrs |-> gated.attrs @@ sub]

ActionOf(base) ==
    IF base.ok /\ "action" \in DOMAIN base.attrs THEN base.attrs.action ELSE ""

TweetSubFlags(action) ==
    [is_delete        |-> action = "delete",
     is_tweet_edit    |-> action = "tweet_edit",
     is_tweet_witheld |-> action = "status_withheld"]

TweetSubGate(gated, sub) ==
    SubActionGate(gated, sub, <<sub.is_delete, sub.is_tweet_edit, sub.is_tweet_witheld>>)

TweetSubActions(gated) == TweetSubGate(gated, TweetSubFlags(ActionOf(gated)))

TweetAction_init(tweet_action) ==
    TweetSubActions(ClassGate(ViewSuperInit(tweet_action), "is_tweet_action"))

UserSubFlags(action) ==
    [is_user_delete    |-> action = "user_delete",
     is_user_protect   |-> action = "user_protect",
     is_user_suspend   |-> action = "user_suspend",
     is_user_undelete  |-> action = "user_undelete",
     is_user_unprotect |-> action = "user_unprotect",
     is_user_unsuspend |-> action = "user_unsuspend",
     is_user_withheld  |-> action = "user_withheld"]

UserSubGate(gated, sub) ==
    SubActionGate(gated, sub,
                  <<sub.is_user_delete, sub.is_user_protect, sub.is_user_suspend,
                    sub.is_user_undelete, sub.is_user_unprotect,
                    sub.is_user_unsuspend, sub.is_user_withheld>>)

UserSubActions(gated) == UserSubGate(gated, UserSubFlags(ActionOf(gated)))

UserAction_init(user_action) ==
    UserSubActions(ClassGate(ViewSuperInit(user_action), "is_user_action"))

DropSubFlags(action) ==
    [is_drop   |-> action = "drop",
     is_undrop |-> action = "undrop"]

DropSubGate(gated, sub) == SubActionGate(gated, sub, <<sub.is_drop, sub.is_undrop>>)

DropSubActions(gated) == DropSubGate(gated, DropSubFlags(ActionOf(gated)))

DropAction_init(drop_action) ==
    DropSubActions(ClassGate(ViewSuperInit(drop_action), "is_drop_action"))

ScrubGeoAction_init(geo_action) ==
    ClassGate(ViewSuperInit(geo_action), "is_geo_action")

DeleteLikeAction_init(like_action) ==
    ClassGate(ViewSuperInit(like_action), "is_like_action")

Classes ==
    {"ComplianceBase", "TweetAction", "UserAction", "DropAction",
     "ScrubGeoAction", "DeleteLikeAction"}

ViewClasses == Classes \ {"ComplianceBase"}

\* The constructor of class cls applied to arg.
Construct(cls, arg) ==
    CASE cls = "ComplianceBase" -> ComplianceBase_init(arg)
      [] cls = "TweetAction" -> TweetAction_init(arg)
      [] cls = "UserAction" -> UserAction_init(arg)
      [] cls = "DropAction" -> DropAction_init(arg)
      [] cls = "ScrubGeoAction" -> ScrubGeoAction_init(arg)
      [] cls = "DeleteLikeAction" -> DeleteLikeAction_init(arg)

-----------------------------------------------------------------------------
(* Conversions used by the accessors.                                      *)

Digits == {"0", "1", "2", "3", "4", "5", "6", "7", "8", "9"}

DigitVal(c) ==
    CASE c = "0" -> 0 [] c = "1" -> 1 [] c = "2" -> 2 [] c = "3" -> 3
      [] c = "4" -> 4 [] c = "5" -> 5 [] c = "6" -> 6 [] c = "7" -> 7
      [] c = "8" -> 8 [] c = "9" -> 9

DigitChar(d) == <<"0", "1", "2", "3", "4", "5", "6", "7", "8", "9">>[d + 1]

DigitsAt(cs, a, b) == b <= Len(cs) /\ \A i \in a..b : cs[i] \in Digits

\* The number written at positions a..b of cs.
RECURSIVE NumAt(_, _, _)
NumAt(cs, a, b) ==
    IF b < a THEN 0 ELSE 10 * NumAt(cs, a, b - 1) + DigitVal(cs[b])

RECURSIVE NatChars(_)
NatChars(n) ==
    IF n < 10 THEN <<DigitChar(n)>> ELSE NatChars(n \div 10) \o <<DigitChar(n % 10)>>

\* str(v): a str is itself, None is "None", an int is its decimal digits;
\* the text of a list or dict is left as the repr of the value.
str(v) ==
    CASE v.kind = "str" -> v
      [] v.kind = "None" -> PyStr(<<"N", "o", "n", "e">>)
      [] v.kind = "int" ->
           PyStr(IF v.n < 0 THEN <<"-">> \o NatChars(-v.n) ELSE NatChars(v.n))
      [] OTHER -> [kind |-> "str", repr_of |-> v]

\* int(v) as line 158 uses it: the exception it raises, or "" when it
\* returns.  A str must be decimal digits with an optional sign.
IntFails(v) ==
    CASE v.kind = "int" -> ""
      [] v.kind = "str" ->
           LET cs == IF v.s # <<>> /\ Head(v.s) \in {"+", "-"} THEN Tail(v.s) ELSE v.s
           IN  IF cs # <<>> /\ DigitsAt(cs, 1, Len(cs)) THEN "" ELSE "ValueError"
      [] OTHER -> "TypeError"

\* The date and time fields of YYYY-MM-DD[?HH:MM:SS[.fff[fff]]][+HH:MM].
IsoHasOffset(cs) == Len(cs) \in {25, 29, 32}
IsoBodyLen(cs) == IF IsoHasOffset(cs) THEN Len(cs) - 6 ELSE Len(cs)

IsIsoFormat(cs) ==
    LET n == IsoBodyLen(cs) IN
    /\ n \in {10, 19, 23, 26}
    /\ DigitsAt(cs, 1, 4) /\ cs[5] = "-" /\ DigitsAt(cs, 6, 7) /\ cs[8] = "-"
    /\ DigitsAt(cs, 9, 10)
    /\ NumAt(cs, 1, 4) >= 1
    /\ NumAt(cs, 6, 7) \in 1..12 /\ NumAt(cs, 9, 10) \in 1..31
    /\ n >= 19 =>
         /\ DigitsAt(cs, 12, 13) /\ cs[14] = ":" /\ DigitsAt(cs, 15, 16)
         /\ cs[17] = ":" /\ DigitsAt(cs, 18, 19)
         /\ NumAt(cs, 12, 13) < 24 /\ NumAt(cs, 15, 16) < 60 /\ NumAt(cs, 18, 19) < 60
    /\ n >= 23 => cs[20] = "." /\ DigitsAt(cs, 21, n)
    /\ IsoHasOffset(cs) =>
         /\ cs[n + 1] \in {"+", "-"} /\ DigitsAt(cs, n + 2, n + 3)
         /\ cs[n + 4] = ":" /\ DigitsAt(cs, n + 5, n + 6)

\* datetime.fromisoformat(cs).replace(tzinfo=None): the fields as written,
\* the offset dropped without converting.
NaiveDatetime(cs) ==
    LET n == IsoBodyLen(cs) IN
    [kind   |-> "datetime",
     year   |-> NumAt(cs, 1, 4), month |-> NumAt(cs, 6, 7), day |-> NumAt(cs, 9, 10),
     hour   |-> IF n >= 19 THEN NumAt(cs, 12, 13) ELSE 0,
     minute |-> IF n >= 19 THEN NumAt(cs, 15, 16) ELSE 0,
     second |-> IF n >= 19 THEN NumAt(cs, 18, 19) ELSE 0,
     microsecond |->
        IF n = 23 THEN 1000 * NumAt(cs, 21, 23)
        ELSE IF n = 26 THEN NumAt(cs, 21, 26) ELSE 0]

\* str(int(dt.timestamp() * 1000)): the epoch milliseconds of dt read in the
\* host's time zone, as text.  The zone is the host's, so the digits are
\* left as a term over dt.
EpochMsText(dt) == [kind |-> "str", epoch_ms_of |-> dt]

\* datetime.fromtimestamp(int(v) / 1000): the local date and time of an
\* epoch in milliseconds, left as a term over the number's text.
FromTimestampMs(v) == [kind |-> "datetime", local_of_epoch_ms |-> str(v)]

-----------------------------------------------------------------------------
(* The accessors.  self is an instance: [class, attrs, via].               *)

get_value(self, key_list) == get_dict_val(dicts[self.attrs.comp_object], key_list)

\* Lines 157-159: the epoch string as it is, or converted.
EpochResult(timestamp_ms, as_datetime) ==
    IF as_datetime
    THEN IF IntFails(timestamp_ms) # ""
         THEN Raise(IntFails(timestamp_ms), "int(timestamp_ms)")
         ELSE Return(FromTimestampMs(timestamp_ms))
    ELSE Return(timestamp_ms)

\* Lines 142-145 and 152-155: the ISO text parsed, as it is or as epoch text.
IsoResult(iso_fmt_time, as_datetime) ==
    IF iso_fmt_time.kind # "str"
    THEN Raise("TypeError", "fromisoformat")
    ELSE IF ~IsIsoFormat(iso_fmt_time.s)
    THEN Raise("ValueError", "fromisoformat")
    ELSE IF as_datetime
    THEN Return(NaiveDatetime(iso_fmt_time.s))
    ELSE Return(EpochMsText(NaiveDatetime(iso_fmt_time.s)))

get_timestamp(self, as_datetime) ==
    IF self.attrs.is_user_action /\ "is_user_withheld" \notin DOMAIN self.attrs
    THEN Raise("AttributeError", "self.is_user_withheld")
    ELSE IF self.attrs.is_user_action /\ self.attrs.is_user_withheld
    THEN IsoResult(get_value(self, <<self.attrs.action, "timestampMs">>), as_datetime)
    ELSE EpochResult(get_value(self, <<self.attrs.action, "timestamp_ms">>), as_datetime)

TweetAction_get_tweet_id(self) ==
    IF self.attrs.is_delete \/ self.attrs.is_tweet_witheld
    THEN Return(get_value(self, <<self.attrs.action, "status", "id_str">>))
    ELSE IF self.attrs.is_tweet_edit
    THEN Return(get_value(self, <<self.attrs.action, "tweet_edit", "id">>))
    ELSE Return(None)

TweetAction_get_edit_tweet_ids(self) ==
    IF ~self.attrs.is_tweet_edit
    THEN Return(PyTuple(<<None, None, None>>))
    ELSE Return(PyTuple(<<get_value(self, <<self.attrs.action, "id">>),
                          get_value(self, <<self.attrs.action, "initial_tweet_id">>),
                          get_value(self, <<self.attrs.action, "edit_tweet_ids">>)>>))

TweetAction_get_user_id(self) ==
    IF self.attrs.is_delete \/ self.attrs.is_tweet_witheld
    THEN Return(get_value(self, <<self.attrs.action, "status", "user_id_str">>))
    ELSE Return(None)

TweetAction_get_withheld_countries(self) ==
    IF self.attrs.is_tweet_witheld
    THEN Return(get_value(self, <<self.attrs.action, "withheld_in_countries">>))
    ELSE Return(None)

UserAction_get_user_id(self) ==
    IF ~self.attrs.is_user_withheld
    THEN Return(str(get_value(self, <<self.attrs.action, "id">>)))
    ELSE Return(get_value(self, <<self.attrs.action, "user", "id_str">>))

UserAction_get_withheld_countries(self) ==
    IF self.attrs.is_user_withheld
    THEN Return(get_value(self, <<self.attrs.action, "withheld_in_countries">>))
    ELSE Return(None)

DropAction_get_tweet_id(self) ==
    Return(get_value(self, <<self.attrs.action, "status", "id_str">>))

DropAction_get_user_id(self) ==
    Return(get_value(self, <<self.attrs.action, "status", "user_id_str">>))

ScrubGeoAction_get_user_id(self) ==
    Return(get_value(self, <<self.attrs.action, "user_id_str">>))

ScrubGeoAction_get_up_to_status_id(self) ==
    Return(get_value(self, <<self.attrs.action, "up_to_status_id_str">>))

DeleteLikeAction_get_tweet_id(self) ==
    Return(get_value(self, <<self.attrs.action, "favorite", "tweet_id_str">>))

DeleteLikeAction_get_user_id(self) ==
    Return(get_value(self, <<self.attrs.action, "favorite", "user_id_str">>))

-----------------------------------------------------------------------------
(* The caller.                                                             *)

NoCall == [op |-> "none"]
NoSelf == [class |-> "none"]

\* Arguments of the other calls: none, a key list, a flag, a class name.
NoArg == [kind |-> "none"]
KeyListArg(key_list) == [kind |-> "key_list", keys |-> key_list]
BoolArg(b) == [kind |-> "bool", b |-> b]
NameArg(name) == [kind |-> "name", name |-> name]

Call(op, class, self, arg, out) ==
    [op |-> op, class |-> class, self |-> self, arg |-> arg, out |-> out]

Init ==
    /\ dicts \in {<<r>> : r \in Records}
    /\ objs = {}
    /\ last = NoCall

Instance(cls, attrs, arg) == [class |-> cls, attrs |-> attrs, via |-> arg.kind]

\* cls(arg) ended with out: the instance joins objs when the constructor
\* returned.
Constructed(cls, arg, out) ==
    /\ out.ok => Cardinality(objs \cup {Instance(cls, out.attrs, arg)}) <= MaxObjs
    /\ objs' = IF out.ok THEN objs \cup {Instance(cls, out.attrs, arg)} ELSE objs
    /\ last' = Call("__init__", cls, NoSelf, arg,
                    IF out.ok
                    THEN Return([kind |-> "instance", obj |-> Instance(cls, out.attrs, arg)])
                    ELSE out)
    /\ UNCHANGED dicts

New(cls, arg) == Constructed(cls, arg, Construct(cls, arg))

NewComplianceBase == \E arg \in Args : New("ComplianceBase", arg)
NewTweetAction == \E arg \in Args : New("TweetAction", arg)
NewUserAction == \E arg \in Args : New("UserAction", arg)
NewDropAction == \E arg \in Args : New("DropAction", arg)
NewScrubGeoAction == \E arg \in Args : New("ScrubGeoAction", arg)
NewDeleteLikeAction == \E arg \in Args : New("DeleteLikeAction", arg)

\* The key lists a caller passes to get_value on self.
KeyLists(self) ==
    LET a == self.attrs.action IN
    { <<>>, <<a>>, <<a, "status">>, <<a, "status", "id_str">>,
      <<a, "timestamp_ms", "id_str">>, <<"no_such_key">>,
      <<a, "status", "id_str", "deeper">> }

\* A method call on instance self: only last changes.
Method(op, self, arg, out) ==
    /\ last' = Call(op, self.class, self, arg, out)
    /\ UNCHANGED <<dicts, objs>>

Call_get_value ==
    \E self \in objs : \E key_list \in KeyLists(self) :
        Method("get_value", self, KeyListArg(key_list), Return(get_value(self, key_list)))

Call_get_timestamp ==
    \E self \in objs : \E as_datetime \in BOOLEAN :
        Method("get_timestamp", self, BoolArg(as_datetime), get_timestamp(self, as_datetime))

Call_TweetAction_get_tweet_id ==
    \E self \in objs :
        /\ self.class = "TweetAction"
        /\ Method("get_tweet_id", self, NoArg, TweetAction_get_tweet_id(self))

Call_TweetAction_get_edit_tweet_ids ==
    \E self \in objs :
        /\ self.class = "TweetAction"
        /\ Method("get_edit_tweet_ids", self, NoArg, TweetAction_get_edit_tweet_ids(self))

Call_TweetAction_get_user_id ==
    \E self \in objs :
        /\ self.class = "TweetAction"
        /\ Method("get_user_id", self, NoArg, TweetAction_get_user_id(self))

Call_TweetAction_get_withheld_countries ==
    \E self \in objs :
        /\ self.class = "TweetAction"
        /\ Method("get_withheld_countries", self, NoArg,
                  TweetAction_get_withheld_countries(self))

Call_UserAction_get_user_id ==
    \E self \in objs :
        /\ self.class = "UserAction"
        /\ Method("get_user_id", self, NoArg, UserAction_get_user_id(self))

Call_UserAction_get_withheld_countries ==
    \E self \in objs :
        /\ self.class = "UserAction"
        /\ Method("get_withheld_countries", self, NoArg,
                  UserAction_get_withheld_countries(self))

Call_DropAction_get_tweet_id ==
    \E self \in objs :
        /\ self.class = "DropAction"
        /\ Method("get_tweet_id", self, NoArg, DropAction_get_tweet_id(self))

Call_DropAction_get_user_id ==
    \E self \in objs :
        /\ self.class = "DropAction"
        /\ Method("get_user_id", self, NoArg, DropAction_get_user_id(self))

Call_ScrubGeoAction_get_user_id ==
    \E self \in objs :
        /\ self.class = "ScrubGeoAction"
        /\ Method("get_user_id", self, NoArg, ScrubGeoAction_get_user_id(self))

Call_ScrubGeoAction_get_up_to_status_id ==
    \E self \in objs :
        /\ self.class = "ScrubGeoAction"
        /\ Method("get_up_to_status_id", self, NoArg,
                  ScrubGeoAction_get_up_to_status_id(self))

\* The class names a caller may ask the registry for, one of them wrong.
ClassNameInputs == ActionClasses \cup {"geo"}

Call_return_possible_actions ==
    \E action_class \in ClassNameInputs :
        /\ last' = Call("return_possible_actions", "", NoSelf, NameArg(action_class),
                        return_possible_actions(action_class))
        /\ UNCHANGED <<dicts, objs>>

\* DeleteLikeAction's accessors are not here: no instance of it can be
\* constructed (see C10_DeleteNeverConstructs below), so they are never called.
Next ==
    \/ NewComplianceBase
    \/ NewTweetAction
    \/ NewUserAction
    \/ NewDropAction
    \/ NewScrubGeoAction
    \/ NewDeleteLikeAction
    \/ Call_get_value
    \/ Call_get_timestamp
    \/ Call_TweetAction_get_tweet_id
    \/ Call_TweetAction_get_edit_tweet_ids
    \/ Call_TweetAction_get_user_id
    \/ Call_TweetAction_get_withheld_countries
    \/ Call_UserAction_get_user_id
    \/ Call_UserAction_get_withheld_countries
    \/ Call_DropAction_get_tweet_id
    \/ Call_DropAction_get_user_id
    \/ Call_ScrubGeoAction_get_user_id
    \/ Call_ScrubGeoAction_get_up_to_status_id
    \/ Call_return_possible_actions

Spec == Init /\ [][Next]_vars

-----------------------------------------------------------------------------
(* Vocabulary of the properties.  These read the dictionary directly, not  *)
(* through get_dict_val.                                                   *)

IsInit == last.op = "__init__"
IsAccessor == last.op \notin {"none", "__init__", "return_possible_actions"}

\* The first key of dictionary d, "" when it has none.
FirstKey(d) == IF d.keys = <<>> THEN "" ELSE d.keys[1]

\* Whether every key of path is found in turn, starting from value v.
RECURSIVE PathPresent(_, _)
PathPresent(v, path) ==
    \/ path = <<>>
    \/ /\ v.kind = "dict"
       /\ Head(path) \in DOMAIN v.m
       /\ PathPresent(v.m[Head(path)], Tail(path))

\* The value stored at path, for a path that is present.
RECURSIVE Stored(_, _)
Stored(v, path) == IF path = <<>> THEN v ELSE Stored(v.m[Head(path)], Tail(path))

\* The value stored at path in the dictionary of self, None when absent.
StoredOrNone(self, path) ==
    IF PathPresent(dicts[self.attrs.comp_object], path)
    THEN Stored(dicts[self.attrs.comp_object], path)
    ELSE None

\* The class set a view class narrows to.
ClassSetOf(cls) ==
    CASE cls = "TweetAction" -> TWEET_ACTIONS
      [] cls = "UserAction" -> USER_ACTIONS
      [] cls = "DropAction" -> DROP_ACTIONS
      [] cls = "ScrubGeoAction" -> GEO_ACTIONS
      [] cls = "DeleteLikeAction" -> LIKE_ACTIONS

RecognizedNames ==
    USER_ACTIONS \cup TWEET_ACTIONS \cup DROP_ACTIONS \cup GEO_ACTIONS \cup LIKE_ACTIONS

\* The dictionary a constructor call was about: the one passed, or the one
\* of the instance passed.
DictOfArg(arg) ==
    IF arg.kind = "dict" THEN dicts[arg.ref] ELSE dicts[arg.obj.attrs.comp_object]

CountTrue(attrs, names) == Cardinality({n \in names : attrs[n]})

ClassFlagNames ==
    {"is_user_action", "is_tweet_action", "is_drop_action", "is_geo_action",
     "is_like_action"}

SubFlagNames(cls) ==
    CASE cls = "TweetAction" -> {"is_delete", "is_tweet_edit", "is_tweet_witheld"}
      [] cls = "UserAction" ->
           {"is_user_delete", "is_user_protect", "is_user_suspend", "is_user_undelete",
            "is_user_unprotect", "is_user_unsuspend", "is_user_withheld"}
      [] cls = "DropAction" -> {"is_drop", "is_undrop"}
      [] OTHER -> {}

-----------------------------------------------------------------------------
(* C1.  The five action-class sets are pairwise disjoint: no action name   *)
(* is a member of two of them; stated of the set the registry returns for *)
(* a class against the set of every other class.  (Fails on the code:      *)
(* "delete" is in both TWEET_ACTIONS and LIKE_ACTIONS.)                    *)
C1_PairwiseDisjoint ==
    (last.op = "return_possible_actions" /\ last.out.ok) =>
        \A c2 \in ActionClasses \ {last.arg.name} :
            last.out.val.e \cap return_possible_actions(c2).val.e = {}

(* C2.  For a record whose single top-level key is a recognized action     *)
(* name, ComplianceBase and the view of the class containing the name      *)
(* construct, and every other view fails with WrongActionClass.  (Fails on *)
(* the code for "delete": every constructor raises in the base check.)     *)
C2_MatchingViewConstructs ==
    (/\ IsInit
     /\ last.arg.kind \in {"dict", "instance"}
     /\ Len(DictOfArg(last.arg).keys) = 1
     /\ FirstKey(DictOfArg(last.arg)) \in RecognizedNames
     /\ last.arg.kind = "instance" => last.class # "ComplianceBase")
    =>
    IF last.class = "ComplianceBase"
       \/ FirstKey(DictOfArg(last.arg)) \in ClassSetOf(last.class)
    THEN last.out.ok
    ELSE last.out = Raise("TypeError", "WrongActionClass")

(* C3.  Once a constructor has returned, every accessor call on the        *)
(* instance returns a value and never raises.  (Fails on the code:         *)
(* get_timestamp on a ComplianceBase holding a user record reads an        *)
(* attribute only UserAction sets; the datetime conversions raise on a     *)
(* missing or malformed timestamp.)                                        *)
C3_AccessorsNeverRaise == IsAccessor => last.out.ok


\* The record of the tweet-edit scenario.
TweetEditScenario ==
    PyDict(<<<<"tweet_edit",
               PyDict(<<<<"id", PyStr(Chars_999)>>,
                        <<"initial_tweet_id", PyStr(Chars_111)>>,
                        <<"edit_tweet_ids", EditIds>>,
                        <<"timestamp_ms", TimestampMs>>>>)>>>>)

(* C4.  On a tweet_edit record TweetAction.get_tweet_id returns the value  *)
(* stored at [action, "id"], the first component of get_edit_tweet_ids;    *)
(* get_edit_tweet_ids returns (id, initial_tweet_id, edit_tweet_ids) as    *)
(* stored; get_user_id returns None.  On the scenario record the results   *)
(* are ("999", "111", ["111", "555", "999"]), "999" and None.  (Fails on   *)
(* the code: get_tweet_id reads [action, "tweet_edit", "id"].)             *)
C4_TweetEditIds ==
    (/\ IsAccessor
     /\ last.class = "TweetAction"
     /\ last.self.attrs.action = "tweet_edit")
    =>
    /\ last.op = "get_tweet_id" =>
         /\ last.out = Return(StoredOrNone(last.self, <<"tweet_edit", "id">>))
         /\ last.out.val = TweetAction_get_edit_tweet_ids(last.self).val.t[1]
         /\ dicts[1] = TweetEditScenario => last.out = Return(PyStr(Chars_999))
    /\ last.op = "get_edit_tweet_ids" =>
         /\ last.out =
              Return(PyTuple(<<StoredOrNone(last.self, <<"tweet_edit", "id">>),
                               StoredOrNone(last.self, <<"tweet_edit", "initial_tweet_id">>),
                               StoredOrNone(last.self, <<"tweet_edit", "edit_tweet_ids">>)>>))
         /\ dicts[1] = TweetEditScenario =>
              last.out = Return(PyTuple(<<PyStr(Chars_999), PyStr(Chars_111), EditIds>>))
    /\ last.op = "get_user_id" => last.out = Return(None)

\* The field path the accessor of the latest call reads, <<>> when the
\* accessor reads none for the sub-action of self.
PathRead(op, self) ==
    LET a == self.attrs.action IN
    CASE self.class = "TweetAction" /\ op = "get_tweet_id" ->
           IF a = "tweet_edit" THEN <<a, "id">> ELSE <<a, "status", "id_str">>
      [] self.class = "TweetAction" /\ op = "get_user_id" ->
           IF a = "tweet_edit" THEN <<>> ELSE <<a, "status", "user_id_str">>
      [] self.class = "TweetAction" /\ op = "get_withheld_countries" ->
           IF a = "status_withheld" THEN <<a, "withheld_in_countries">> ELSE <<>>
      [] self.class = "UserAction" /\ op = "get_user_id" ->
           IF a = "user_withheld" THEN <<a, "user", "id_str">> ELSE <<a, "id">>
      [] self.class = "UserAction" /\ op = "get_withheld_countries" ->
           IF a = "user_withheld" THEN <<a, "withheld_in_countries">> ELSE <<>>
      [] self.class = "DropAction" /\ op = "get_tweet_id" -> <<a, "status", "id_str">>
      [] self.class = "DropAction" /\ op = "get_user_id" -> <<a, "status", "user_id_str">>
      [] self.class = "ScrubGeoAction" /\ op = "get_user_id" -> <<a, "user_id_str">>
      [] self.class = "ScrubGeoAction" /\ op = "get_up_to_status_id" ->
           <<a, "up_to_status_id_str">>
      [] OTHER -> <<>>

(* C5.  For every ID and withheld-country accessor of a constructed view,  *)
(* if a key on the accessor's field path is absent from the record, the    *)
(* accessor returns None.  (Fails on the code: UserAction.get_user_id      *)
(* returns str(None), the text "None", when "id" is absent.)               *)
C5_AbsentPathGivesNone ==
    (/\ IsAccessor
     /\ PathRead(last.op, last.self) # <<>>
     /\ ~PathPresent(dicts[last.self.attrs.comp_object], PathRead(last.op, last.self)))
    => last.out = Return(None)

(* C6.  Exactly one of the five class flags is true in every constructed   *)
(* instance, and exactly one sub-action flag is true in every constructed  *)
(* TweetAction, UserAction and DropAction.                                 *)
C6_ExactlyOneFlag ==
    \A o \in objs :
        /\ ClassFlagNames \subseteq DOMAIN o.attrs
        /\ CountTrue(o.attrs, ClassFlagNames) = 1
        /\ SubFlagNames(o.class) \subseteq DOMAIN o.attrs
        /\ o.class \in {"TweetAction", "UserAction", "DropAction"} =>
             CountTrue(o.attrs, SubFlagNames(o.class)) = 1

\* A classifier and a view with sub-actions have both been constructed.
C6_Witness ==
    /\ \E o \in objs : o.class = "ComplianceBase"
    /\ \E o \in objs : o.class \in {"TweetAction", "UserAction", "DropAction"}

(* C7.  Every constructor (ComplianceBase and the five views) given None   *)
(* fails with MissingRecord, the ValueError of the null check.  (Fails on  *)
(* the code: a view given None skips super().__init__, builds a TypeError  *)
(* without raising it, and fails reading its class flag.)                  *)
C7_NoneIsMissingRecord ==
    (IsInit /\ last.arg = ArgNone) => last.out = Raise("ValueError", "MissingRecord")


\* What every accessor of self answers: the two timestamp modes, get_value
\* on each key list, and the accessors of the class of self.
Answers(self) ==
    <<get_timestamp(self, FALSE), get_timestamp(self, TRUE),
      [key_list \in KeyLists(self) |-> get_value(self, key_list)],
      CASE self.class = "TweetAction" ->
             <<TweetAction_get_tweet_id(self), TweetAction_get_edit_tweet_ids(self),
               TweetAction_get_user_id(self), TweetAction_get_withheld_countries(self)>>
        [] self.class = "UserAction" ->
             <<UserAction_get_user_id(self), UserAction_get_withheld_countries(self)>>
        [] self.class = "DropAction" ->
             <<DropAction_get_tweet_id(self), DropAction_get_user_id(self)>>
        [] self.class = "ScrubGeoAction" ->
             <<ScrubGeoAction_get_user_id(self), ScrubGeoAction_get_up_to_status_id(self)>>
        [] self.class = "DeleteLikeAction" ->
             <<DeleteLikeAction_get_tweet_id(self), DeleteLikeAction_get_user_id(self)>>
        [] OTHER -> <<>>>>

\* The outcome of the latest constructor call, a view given an instance,
\* against the outcome of the same view given that instance's dictionary.
RewrapAgrees(raw) ==
    /\ last.out.ok = raw.ok
    /\ ~raw.ok => last.out = raw
    /\ raw.ok =>
         /\ last.out.val.obj.class = last.class
         /\ last.out.val.obj.attrs = raw.attrs
         /\ Answers(last.out.val.obj) =
              Answers(Instance(last.class, raw.attrs, ArgDict(raw.attrs.comp_object)))

C8_RewrapState ==
    /\ (IsInit /\ last.class \in ViewClasses /\ last.arg.kind = "instance") =>
          RewrapAgrees(Construct(last.class, ArgDict(last.arg.obj.attrs.comp_object)))
    /\ \A o1 \in objs : \A o2 \in objs :
          (o1.class = o2.class /\ o1.attrs.comp_object = o2.attrs.comp_object) =>
              (o1.attrs = o2.attrs /\ Answers(o1) = Answers(o2))

(* C8.  Re-wrapping is idempotent: a view constructed from an instance     *)
(* (a ComplianceBase or another view) ends as the same view constructed    *)
(* from the raw record does: the same success or failure, the same action  *)
(* name and flags, the same answer from every accessor, over the same      *)
(* dictionary; and no call changes the dictionary.                         *)
C8_RewrapIdempotent == []C8_RewrapState /\ [][dicts' = dicts]_vars

\* A view made from the raw record is held, and the same view has just been
\* constructed from an instance.
C8_Witness ==
    /\ IsInit /\ last.arg.kind = "instance" /\ last.out.ok
    /\ last.class \in ViewClasses
    /\ \E o \in objs : o.class = last.class /\ o.via = "dict"
    /\ \E o \in objs : o.class = last.class /\ o.via = "instance"

(* C9.  For every constructed instance, classifier or view, whose action   *)
(* is not user_withheld, get_timestamp(as_datetime=False) returns the      *)
(* value stored at [action, "timestamp_ms"], unchanged.  (Fails on the     *)
(* code: on a ComplianceBase holding a user record the call raises, as in  *)
(* C3.)                                                                    *)
C9_TimestampUnchanged ==
    (/\ last.op = "get_timestamp"
     /\ last.arg = BoolArg(FALSE)
     /\ last.self.attrs.action # "user_withheld"
     /\ PathPresent(dicts[last.self.attrs.comp_object],
                    <<last.self.attrs.action, "timestamp_ms">>))
    => last.out = Return(Stored(dicts[last.self.attrs.comp_object],
                                <<last.self.attrs.action, "timestamp_ms">>))

=============================================================================
